---------------------------- MODULE Spec2Model ----------------------------
(* Model of dwat (src/src/lib.rs): a listener that subscribes to the Swap  *)
(* events of a Uniswap V2 pair and a Uniswap V3 pool, consumes the two     *)
(* event streams in two spawned tasks and prints every event, rendering    *)
(* the on-chain integers with format_units.                                *)
EXTENDS Integers, Sequences, FiniteSets, TLC

VARIABLES
    mainPc,       \* position of main: Connect, SubscribeV2, SubscribeV3, Spawn, Join, Returned
    mainResult,   \* what main returned: None, Ok, or the error it propagated with `?`
    taskPc,       \* per task: NotSpawned, Next, Handling, Finished, Panicked, Cancelled
    line,         \* per task: the println! of the running handler that comes next (0: none)
    yielded,      \* per task: the results of stream.next() so far, in order
    handled,      \* per task: the events its handler was called with, in order
    out,          \* per task: the lines its handler calls printed, in order
    lastPrinter,  \* who printed the last line on stdout: None, main, V2 or V3
    fmtPc,        \* a direct call of format_units: Call, Returned, Panicked
    fmtValue,     \* its value argument (U256)
    fmtDecimals,  \* its decimals argument (u8)
    fmtResult     \* the String it returned

vars == <<mainPc, mainResult, taskPc, line, yielded, handled, out, lastPrinter,
          fmtPc, fmtValue, fmtDecimals, fmtResult>>

muxVars == <<mainPc, mainResult, taskPc, line, yielded, handled, out, lastPrinter>>

fmtVars == <<fmtPc, fmtValue, fmtDecimals, fmtResult>>

(***************************************************************************)
(* Bounds of the model.                                                    *)
(***************************************************************************)
\* stream.next() results a task receives in one run
MaxItems == 2

\* format_units is called directly on every value 0..MaxFmtValue (and on the named ones)
MaxFmtValue == 12

\* ... and with every decimals 0..MaxFmtDecimals (and the named ones)
MaxFmtDecimals == 3

(***************************************************************************)
(* U256: unsigned integers of 256 bits, held as their limbs in base 10^4,  *)
(* most significant first, without leading zero limbs (zero is <<0>>).     *)
(* The arithmetic is exact; the width is kept by comparing with U256Max.   *)
(* Carries and borrows are found by looking back along the limbs rather    *)
(* than by recursion, which keeps the evaluation shallow.                  *)
(***************************************************************************)
Base == 10 ^ 4

Zero == <<0>>

One == <<1>>

Max(x, y) == IF x >= y THEN x ELSE y

RECURSIVE NatLimbs(_)
\* U256::from(n) of a machine integer
NatLimbs(n) == IF n < Base THEN <<n>> ELSE Append(NatLimbs(n \div Base), n % Base)

\* s without its leading zero limbs
Strip(s) ==
    IF \A i \in 1..Len(s) : s[i] = 0 THEN Zero
    ELSE LET first == CHOOSE i \in 1..Len(s) : s[i] # 0 /\ \A j \in 1..(i - 1) : s[j] = 0
         IN  SubSeq(s, first, Len(s))

\* the i-th limb of a from the right, 0 beyond its length
LimbAt(a, i) == IF i <= Len(a) THEN a[Len(a) + 1 - i] ELSE 0

\* a < b
ULess(a, b) ==
    \/ Len(a) < Len(b)
    \/ /\ Len(a) = Len(b)
       /\ \E i \in 1..Len(a) : a[i] < b[i] /\ \A j \in 1..(i - 1) : a[j] = b[j]

\* a + b: a carry enters limb i when a limb below overflows and every limb between passes it on
UAdd(a, b) ==
    LET n        == Max(Len(a), Len(b))
        sum(i)   == LimbAt(a, i) + LimbAt(b, i)
        carry(i) == IF \E j \in 1..(i - 1) :
                          sum(j) >= Base /\ \A k \in (j + 1)..(i - 1) : sum(k) = Base - 1
                    THEN 1 ELSE 0
    IN  Strip([p \in 1..(n + 1) |-> (sum(n + 2 - p) + carry(n + 2 - p)) % Base])

\* a - b for a >= b: a borrow enters limb i when a limb below is short and every limb
\* between passes it on
USub(a, b) ==
    LET n         == Len(a)
        borrow(i) == IF \E j \in 1..(i - 1) :
                           /\ LimbAt(a, j) < LimbAt(b, j)
                           /\ \A k \in (j + 1)..(i - 1) : LimbAt(a, k) = LimbAt(b, k)
                     THEN 1 ELSE 0
    IN  Strip([p \in 1..n |->
                 (LimbAt(a, n + 1 - p) - LimbAt(b, n + 1 - p) - borrow(n + 1 - p) + Base) % Base])

\* a * d for one limb d: the low halves of the limb products plus their high halves one limb up
MulSmall(a, d) ==
    LET n == Len(a)
    IN  UAdd(Strip([p \in 1..n |-> (a[p] * d) % Base]),
             Strip([p \in 1..(n + 1) |-> IF p <= n THEN (a[p] * d) \div Base ELSE 0]))

\* a followed by k zero limbs: a * Base^k
ShiftLimbs(a, k) == Strip(a \o [i \in 1..k |-> 0])

RECURSIVE UMul(_, _)
\* a * b: schoolbook multiplication, the limbs of b taken half by half
UMul(a, b) ==
    IF Len(b) = 1 THEN MulSmall(a, b[1])
    ELSE LET h    == Len(b) \div 2
             high == UMul(a, SubSeq(b, 1, h))
             low  == UMul(a, SubSeq(b, h + 1, Len(b)))
         IN  IF Len(high) > 0 /\ Len(low) > 0
             THEN UAdd(ShiftLimbs(high, Len(b) - h), low)
             ELSE Zero

\* the limb q with q * b <= r < (q + 1) * b, sought among from + step * (0..count-1)
QuotStep(r, b, from, step, count) ==
    CHOOSE q \in {from + step * i : i \in 0..(count - 1)} :
        /\ ~ULess(r, MulSmall(b, q))
        /\ \/ q + step >= Base
           \/ ULess(r, MulSmall(b, q + step))

\* the limb q with q * b <= r < (q + 1) * b, for r < Base * b
QuotLimb(r, b) ==
    LET coarse == QuotStep(r, b, 0, 500, 20)
        middle == QuotStep(r, b, coarse, 25, 20)
    IN  QuotStep(r, b, middle, 1, 25)

\* one step of long division: r, the remainder with the next limb brought down, leaves
\* the quotient limb q
DivModStep(r, b, q) == [quot |-> <<q>>, rem |-> USub(r, MulSmall(b, q))]

\* r < Base * b divided by b
DivModOnce(r, b) == DivModStep(r, b, QuotLimb(r, b))

RECURSIVE DivModSeq(_, _, _)
\* long division of the limbs a brought down onto the remainder rem < b, half by half:
\* one quotient limb for every limb of a
DivModSeq(a, b, rem) ==
    IF Len(a) = 1 THEN DivModOnce(Strip(Append(rem, a[1])), b)
    ELSE LET h    == Len(a) \div 2
             high == DivModSeq(SubSeq(a, 1, h), b, rem)
         IN  IF Len(high.rem) > 0
             THEN LET low == DivModSeq(SubSeq(a, h + 1, Len(a)), b, high.rem)
                  IN  [quot |-> high.quot \o low.quot, rem |-> low.rem]
             ELSE high

RECURSIVE DivModLimb(_, _, _)
\* short division of the limbs a by the single limb d, brought down onto rem < d
DivModLimb(a, d, rem) ==
    IF Len(a) = 1
    THEN LET cur == rem * Base + a[1]
         IN  [quot |-> <<cur \div d>>, rem |-> <<cur % d>>]
    ELSE LET h    == Len(a) \div 2
             high == DivModLimb(SubSeq(a, 1, h), d, rem)
         IN  IF Len(high.rem) > 0
             THEN LET low == DivModLimb(SubSeq(a, h + 1, Len(a)), d, high.rem[1])
                  IN  [quot |-> high.quot \o low.quot, rem |-> low.rem]
             ELSE high

\* the number of zero limbs b ends with (b > 0)
TrailingZeroLimbs(b) ==
    CHOOSE k \in 0..(Len(b) - 1) :
        /\ b[Len(b) - k] # 0
        /\ \A i \in 1..k : b[Len(b) + 1 - i] = 0

\* a / c and a % c, by short division when c is a single limb
DivModLimbs(a, c) == IF Len(c) = 1 THEN DivModLimb(a, c[1], 0) ELSE DivModSeq(a, c, Zero)

\* the quotient without leading zero limbs, and the remainder followed by the limbs low
DivModJoin(dm, low) == [quot |-> Strip(dm.quot), rem |-> Strip(dm.rem \o low)]

\* a / b and a % b for b ending with k zero limbs: with b = c * Base^k,
\* a / b = (a / Base^k) / c, and the remainder is that division's remainder followed by
\* the k low limbs of a
DivModShifted(a, b, k) ==
    IF Len(a) <= k THEN [quot |-> Zero, rem |-> a]
    ELSE DivModJoin(DivModLimbs(SubSeq(a, 1, Len(a) - k), SubSeq(b, 1, Len(b) - k)),
                    SubSeq(a, Len(a) - k + 1, Len(a)))

\* value / divisor and value % divisor (divisor > 0)
UDivMod(a, b) == DivModShifted(a, b, TrailingZeroLimbs(b))

\* U256::MAX = 2^256 - 1
U256Max ==
    <<11, 5792, 892, 3731, 6195, 4235, 7098, 5008, 6879, 785,
      3269, 9846, 6564, 564, 394, 5758, 4007, 9131, 2963, 9935>>

\* the magnitude of I256::MIN = -2^255
I256MinMag ==
    <<5, 7896, 446, 1865, 8097, 7117, 8549, 2504, 3439, 5392,
      6634, 9923, 3282, 282, 197, 2879, 2003, 9565, 6481, 9968>>

\* the product p as a U256: a panic when it does not fit 256 bits
Checked(p) ==
    IF ULess(U256Max, p) THEN [panic |-> TRUE, val |-> Zero] ELSE [panic |-> FALSE, val |-> p]

\* U256 multiplication: panics when the product does not fit 256 bits
U256Mul(a, b) == Checked(UMul(a, b))

\* a panic carried through U256 arithmetic, or the product
MulOrPanic(x, y) ==
    IF x.panic \/ y.panic THEN [panic |-> TRUE, val |-> Zero] ELSE U256Mul(x.val, y.val)

RECURSIVE PowLoop(_, _, _)
\* the square-and-multiply loop of U256::pow: x the running square, y the product so far
PowLoop(x, y, n) ==
    IF n <= 1 THEN MulOrPanic(x, y)
    ELSE IF x.panic \/ y.panic THEN [panic |-> TRUE, val |-> Zero]
    ELSE PowLoop(MulOrPanic(x, x), IF n % 2 = 0 THEN y ELSE MulOrPanic(x, y), n \div 2)

\* U256::pow(base, n): panics when the result overflows
U256Pow(base, n) ==
    IF n = 0 THEN [panic |-> FALSE, val |-> One]
    ELSE PowLoop([panic |-> FALSE, val |-> base], [panic |-> FALSE, val |-> One], n)

(***************************************************************************)
(* Strings are sequences of one-character strings.                         *)
(***************************************************************************)
DigitChar == <<"0", "1", "2", "3", "4", "5", "6", "7", "8", "9">>

\* "{:0width$}": zeros on the left up to width characters, nothing cut
PadZero(s, width) ==
    IF Len(s) >= width THEN s
    ELSE [i \in 1..width |-> IF i <= width - Len(s) THEN "0" ELSE s[i - (width - Len(s))]]

RECURSIVE NatChars(_)
\* the decimal digits of a machine integer
NatChars(n) ==
    IF n < 10 THEN <<DigitChar[n + 1]>>
    ELSE Append(NatChars(n \div 10), DigitChar[(n % 10) + 1])

\* "{}" of a U256: its decimal digits, no leading zeros (four for every limb below the first)
Display(n) ==
    LET first == NatChars(Head(n))
    IN  [p \in 1..(Len(first) + 4 * (Len(n) - 1)) |->
            IF p <= Len(first) THEN first[p]
            ELSE LET q == p - Len(first) - 1
                 IN  DigitChar[((n[2 + (q \div 4)] \div (10 ^ (3 - (q % 4)))) % 10) + 1]]

\* decimals of the first token of the pair (USDC)
USDCDecimals == 6

\* decimals of the second token of the pair (ETH)
ETHDecimals == 18

\* format!("{}.{}", whole, fractional): the fraction's zeros on the left lost
format_parts_unpadded(dm, decimals) ==
    [panic |-> FALSE, str |-> Display(dm.quot) \o <<".">> \o Display(dm.rem)]

\* format_units from the divisor on, the fraction unpadded
format_divided_unpadded(value, divisor, decimals) ==
    IF divisor.panic THEN [panic |-> TRUE, str |-> <<>>]
    ELSE format_parts_unpadded(UDivMod(value, divisor.val), decimals)

\* format_units with the fraction printed as "{}"
format_units_unpadded(value, decimals) ==
    format_divided_unpadded(value, U256Pow(NatLimbs(10), decimals), decimals)

\* format_parts with an empty fraction left out: nothing after the whole part for decimals = 0
format_parts_suppressed(dm, decimals) ==
    IF decimals = 0 THEN [panic |-> FALSE, str |-> Display(dm.quot)]
    ELSE [panic |-> FALSE,
          str   |-> Display(dm.quot) \o <<".">> \o PadZero(Display(dm.rem), decimals)]

\* format!("{}.{:0width$}", whole, fractional, width = decimals as usize)
format_parts(dm, decimals) ==
    LET whole      == dm.quot
        fractional == dm.rem
    IN  [panic |-> FALSE,
         str   |-> Display(whole) \o <<".">> \o PadZero(Display(fractional), decimals)]

\* format_units from the divisor on: value / divisor and value % divisor, formatted
format_divided(value, divisor, decimals) ==
    IF divisor.panic THEN [panic |-> TRUE, str |-> <<>>]
    ELSE format_parts(UDivMod(value, divisor.val), decimals)

\* fn format_units(value: U256, decimals: u8) -> String
format_units(value, decimals) ==
    format_divided(value, U256Pow(NatLimbs(10), decimals), decimals)

(***************************************************************************)
(* The events and what the two streams yield.                              *)
(***************************************************************************)
Tasks == {"V2", "V3"}

\* an I256 as sign and magnitude; I256::MIN is the one negative value without a positive twin
I256(neg, mag) == [neg |-> neg, mag |-> mag]

I256Min == I256(TRUE, I256MinMag)

\* struct SwapV2Event: the events the V2 stream may decode
V2Events ==
    { [sender |-> "0xa1", amount0_in |-> NatLimbs(1000000), amount1_in |-> Zero,
       amount0_out |-> Zero, amount1_out |-> NatLimbs(123456789), to |-> "0xb2"],
      [sender |-> "0xc3", amount0_in |-> Zero, amount1_in |-> U256Max,
       amount0_out |-> NatLimbs(2500000), amount1_out |-> Zero, to |-> "0xa1"] }

\* struct SwapV3Event: the events the V3 stream may decode
V3Events ==
    { [sender |-> "0xa1", recipient |-> "0xb2",
       amount0 |-> I256(TRUE, NatLimbs(1000000)), amount1 |-> I256(FALSE, NatLimbs(123456789)),
       sqrt_price_x96 |-> NatLimbs(79228162), liquidity |-> NatLimbs(5000), tick |-> -12],
      [sender |-> "0xa1", recipient |-> "0xb2",
       amount0 |-> I256(FALSE, NatLimbs(1000000)), amount1 |-> I256(FALSE, NatLimbs(123456789)),
       sqrt_price_x96 |-> NatLimbs(79228162), liquidity |-> NatLimbs(5000), tick |-> -12],
      [sender |-> "0xc3", recipient |-> "0xa1",
       amount0 |-> I256(FALSE, NatLimbs(42)), amount1 |-> I256Min,
       sqrt_price_x96 |-> NatLimbs(1), liquidity |-> Zero, tick |-> 7] }

EventsOf(l) == IF l = "V2" THEN V2Events ELSE V3Events

NoEvent == [sender |-> "none"]

\* what stream.next().await returns: Some(Ok(event)), Some(Err(e)) for a log that
\* does not decode, or None when the subscription has ended
StreamResults(l) ==
    {[tag |-> "Ok", event |-> e] : e \in EventsOf(l)}
        \cup {[tag |-> "Err", event |-> NoEvent], [tag |-> "None", event |-> NoEvent]}

(***************************************************************************)
(* The handlers, one println! at a time. A println! yields the line it     *)
(* prints or panics; the set holds every outcome a build can produce.      *)
(***************************************************************************)
Printed(label, text) == {[panic |-> FALSE, label |-> label, text |-> text]}

Panic == [panic |-> TRUE, label |-> "panic", text |-> <<>>]

\* println!("...: {}", s) of a string s whose computation may have panicked
PrintString(label, s) == IF s.panic THEN {Panic} ELSE Printed(label, s.str)

\* println!("...: {}", format_units(value, decimals))
PrintUnits(label, value, decimals) == PrintString(label, format_units(value, decimals))

\* the bits of the I256 read as a U256 (two's complement), its sign not taken off by abs
I256Raw(x) ==
    IF x.neg THEN {[panic |-> FALSE, val |-> USub(UAdd(U256Max, One), x.mag)]}
    ELSE {[panic |-> FALSE, val |-> x.mag]}

\* I256::abs: the magnitude; of I256::MIN it overflows, which panics in a build with
\* debug assertions and gives I256::MIN back (the bits of 2^255) in one without
I256Abs(x) ==
    IF x = I256Min THEN {[panic |-> TRUE, val |-> Zero], [panic |-> FALSE, val |-> I256MinMag]}
    ELSE {[panic |-> FALSE, val |-> x.mag]}

\* println!("...: {}", format_units(U256::from(amount.abs()), decimals))
PrintAbsUnits(label, amount, decimals) ==
    UNION { IF a.panic THEN {Panic} ELSE PrintUnits(label, a.val, decimals) : a \in I256Abs(amount) }

\* "{}" of an i32
DisplayI32(n) == IF n < 0 THEN <<"-">> \o NatChars(0 - n) ELSE NatChars(n)

\* async fn handle_v2_swap(event: &SwapV2Event): its k-th println!
handle_v2_swap(event, k) ==
    CASE k = 1 -> Printed("Uniswap V2 Swap:", <<>>)
      [] k = 2 -> Printed("Sender", <<event.sender>>)
      [] k = 3 -> Printed("Recipient", <<event.to>>)
      [] k = 4 -> PrintUnits("Amount0 In", event.amount0_in, USDCDecimals)
      [] k = 5 -> PrintUnits("Amount1 In", event.amount1_in, ETHDecimals)
      [] k = 6 -> PrintUnits("Amount0 Out", event.amount0_out, USDCDecimals)
      [] k = 7 -> PrintUnits("Amount1 Out", event.amount1_out, ETHDecimals)
      [] k = 8 -> Printed("-------------------", <<>>)

\* async fn handle_v3_swap(event: &SwapV3Event): its k-th println!
handle_v3_swap(event, k) ==
    CASE k = 1 -> Printed("Uniswap V3 Swap:", <<>>)
      [] k = 2 -> Printed("Sender", <<event.sender>>)
      [] k = 3 -> Printed("Recipient", <<event.recipient>>)
      [] k = 4 -> PrintAbsUnits("Amount0", event.amount0, USDCDecimals)
      [] k = 5 -> PrintAbsUnits("Amount1", event.amount1, ETHDecimals)
      [] k = 6 -> Printed("Tick", DisplayI32(event.tick))
      [] k = 7 -> Printed("sqrt_price_x96", Display(event.sqrt_price_x96))
      [] k = 8 -> Printed("-------------------", <<>>)

\* the println! calls of one handler call
HandlerLines == 8

\* the outcomes of every println! of every event, computed once
HandlerTable ==
    [l \in Tasks |-> [e \in EventsOf(l) |-> [k \in 1..HandlerLines |->
        IF l = "V2" THEN handle_v2_swap(e, k) ELSE handle_v3_swap(e, k)]]]

\* the outcomes of the k-th println! of task l's handler called with event
Handler(l, event, k) == HandlerTable[l][event][k]

(***************************************************************************)
(* The event layouts: the fields of the typed records and the inputs of    *)
(* the ABI definitions, in declaration order. Names are sequences of       *)
(* characters.                                                             *)
(***************************************************************************)
FieldSpec(name, indexed, type) == [name |-> name, indexed |-> indexed, type |-> type]

\* struct SwapV2Event without #[ethevent(indexed)] on its last field
SwapV2EventToNotIndexed ==
    << FieldSpec(<<"s", "e", "n", "d", "e", "r">>, TRUE, "Address"),
       FieldSpec(<<"a", "m", "o", "u", "n", "t", "0", "_", "i", "n">>, FALSE, "U256"),
       FieldSpec(<<"a", "m", "o", "u", "n", "t", "1", "_", "i", "n">>, FALSE, "U256"),
       FieldSpec(<<"a", "m", "o", "u", "n", "t", "0", "_", "o", "u", "t">>, FALSE, "U256"),
       FieldSpec(<<"a", "m", "o", "u", "n", "t", "1", "_", "o", "u", "t">>, FALSE, "U256"),
       FieldSpec(<<"t", "o">>, FALSE, "Address") >>

\* #[derive(EthEvent)] pub struct SwapV2Event
SwapV2Event ==
    << FieldSpec(<<"s", "e", "n", "d", "e", "r">>, TRUE, "Address"),
       FieldSpec(<<"a", "m", "o", "u", "n", "t", "0", "_", "i", "n">>, FALSE, "U256"),
       FieldSpec(<<"a", "m", "o", "u", "n", "t", "1", "_", "i", "n">>, FALSE, "U256"),
       FieldSpec(<<"a", "m", "o", "u", "n", "t", "0", "_", "o", "u", "t">>, FALSE, "U256"),
       FieldSpec(<<"a", "m", "o", "u", "n", "t", "1", "_", "o", "u", "t">>, FALSE, "U256"),
       FieldSpec(<<"t", "o">>, TRUE, "Address") >>

\* #[derive(EthEvent)] pub struct SwapV3Event
SwapV3Event ==
    << FieldSpec(<<"s", "e", "n", "d", "e", "r">>, TRUE, "Address"),
       FieldSpec(<<"r", "e", "c", "i", "p", "i", "e", "n", "t">>, TRUE, "Address"),
       FieldSpec(<<"a", "m", "o", "u", "n", "t", "0">>, FALSE, "i256"),
       FieldSpec(<<"a", "m", "o", "u", "n", "t", "1">>, FALSE, "i256"),
       FieldSpec(<<"s", "q", "r", "t", "_", "p", "r", "i", "c", "e", "_", "x", "9", "6">>,
                 FALSE, "U256"),
       FieldSpec(<<"l", "i", "q", "u", "i", "d", "i", "t", "y">>, FALSE, "U256"),
       FieldSpec(<<"t", "i", "c", "k">>, FALSE, "i32") >>

\* fn get_v2_pair_abi() -> Abi: the inputs of its event "Swap"
get_v2_pair_abi ==
    << FieldSpec(<<"s", "e", "n", "d", "e", "r">>, TRUE, "address"),
       FieldSpec(<<"a", "m", "o", "u", "n", "t", "0", "I", "n">>, FALSE, "uint256"),
       FieldSpec(<<"a", "m", "o", "u", "n", "t", "1", "I", "n">>, FALSE, "uint256"),
       FieldSpec(<<"a", "m", "o", "u", "n", "t", "0", "O", "u", "t">>, FALSE, "uint256"),
       FieldSpec(<<"a", "m", "o", "u", "n", "t", "1", "O", "u", "t">>, FALSE, "uint256"),
       FieldSpec(<<"t", "o">>, TRUE, "address") >>

\* fn get_v3_pool_abi() -> Abi: the inputs of its event "Swap"
get_v3_pool_abi ==
    << FieldSpec(<<"s", "e", "n", "d", "e", "r">>, TRUE, "address"),
       FieldSpec(<<"r", "e", "c", "i", "p", "i", "e", "n", "t">>, TRUE, "address"),
       FieldSpec(<<"a", "m", "o", "u", "n", "t", "0">>, FALSE, "int256"),
       FieldSpec(<<"a", "m", "o", "u", "n", "t", "1">>, FALSE, "int256"),
       FieldSpec(<<"s", "q", "r", "t", "P", "r", "i", "c", "e", "X", "9", "6">>,
                 FALSE, "uint160"),
       FieldSpec(<<"l", "i", "q", "u", "i", "d", "i", "t", "y">>, FALSE, "uint128"),
       FieldSpec(<<"t", "i", "c", "k">>, FALSE, "int24") >>

(***************************************************************************)
(* main and the two spawned tasks.                                         *)
(***************************************************************************)
Ok == [tag |-> "Ok", cause |-> "none"]

Err(cause) == [tag |-> "Err", cause |-> cause]

NotReturned == [tag |-> "None", cause |-> "none"]

IdleFmt ==
    /\ fmtPc = "Idle"
    /\ fmtValue = Zero
    /\ fmtDecimals = 0
    /\ fmtResult = <<>>

InitMux ==
    /\ mainPc = "Connect"
    /\ mainResult = NotReturned
    /\ taskPc = [l \in Tasks |-> "NotSpawned"]
    /\ line = [l \in Tasks |-> 0]
    /\ yielded = [l \in Tasks |-> <<>>]
    /\ handled = [l \in Tasks |-> <<>>]
    /\ out = [l \in Tasks |-> <<>>]
    /\ lastPrinter = "None"

Init == InitMux /\ IdleFmt

\* a setup step whose error is kept but does not make main return
SetupErrorIgnored(here, next, error) ==
    /\ mainPc = here
    /\ \E ok \in BOOLEAN :
          IF ok THEN mainPc' = next /\ mainResult' = mainResult
          ELSE mainPc' = next /\ mainResult' = Err(error)
    /\ UNCHANGED <<taskPc, line, yielded, handled, out, lastPrinter>>
    /\ UNCHANGED fmtVars

\* a step of main up to the spawns: `?` returns the error, else main goes on
Setup(here, next, error) ==
    /\ mainPc = here
    /\ \E ok \in BOOLEAN :
          IF ok THEN mainPc' = next /\ mainResult' = mainResult
          ELSE mainPc' = "Returned" /\ mainResult' = Err(error)
    /\ UNCHANGED <<taskPc, line, yielded, handled, out, lastPrinter>>
    /\ UNCHANGED fmtVars

\* Provider::<Ws>::connect(ws_url).await?
Connect == Setup("Connect", "SubscribeV2", "connect")

\* v2_events.subscribe().await?
SubscribeV2 == Setup("SubscribeV2", "SubscribeV3", "subscribeV2")

\* v3_events.subscribe().await?
SubscribeV3 == Setup("SubscribeV3", "Listen", "subscribeV3")

\* println!("Listening for Uniswap swap events...")
Listen ==
    /\ mainPc = "Listen"
    /\ mainPc' = "SpawnV2"
    /\ lastPrinter' = "main"
    /\ UNCHANGED <<mainResult, taskPc, line, yielded, handled, out>>
    /\ UNCHANGED fmtVars

\* tokio::spawn(async move { ... }): the task starts at its first stream.next()
Spawn(here, l, next) ==
    /\ mainPc = here
    /\ mainPc' = next
    /\ taskPc' = [taskPc EXCEPT ![l] = "Next"]
    /\ UNCHANGED <<mainResult, line, yielded, handled, out, lastPrinter>>
    /\ UNCHANGED fmtVars

SpawnV2 == Spawn("SpawnV2", "V2", "SpawnV3")

SpawnV3 == Spawn("SpawnV3", "V3", "Join")

\* a JoinHandle is ready when its task has returned (Ok) or panicked (Err(JoinError))
HandleReady(l) == taskPc[l] \in {"Finished", "Panicked"}

\* tokio::try_join!(v2_task, v3_task): ready with the first Err among the handles, in
\* the order it polls them, or with Ok once every handle is ready with Ok
TryJoinReady == (\E l \in Tasks : taskPc[l] = "Panicked") \/ (\A l \in Tasks : HandleReady(l))

TryJoinResult ==
    IF taskPc["V2"] = "Panicked" THEN Err("joinV2")
    ELSE IF taskPc["V3"] = "Panicked" THEN Err("joinV3")
    ELSE Ok

\* tokio::try_join!(v2_task, v3_task)?; Ok(())
Join ==
    /\ mainPc = "Join"
    /\ TryJoinReady
    /\ mainPc' = "Returned"
    /\ mainResult' = TryJoinResult
    /\ UNCHANGED <<taskPc, line, yielded, handled, out, lastPrinter>>
    /\ UNCHANGED fmtVars

\* a loop that starts the handler without awaiting it before the next stream.next()
WhileLetNotAwaited(l, item) ==
    IF item.tag = "Ok"
    THEN /\ handled' = [handled EXCEPT ![l] = Append(@, item.event)]
         /\ UNCHANGED <<taskPc, line>>
    ELSE /\ taskPc' = [taskPc EXCEPT ![l] = "Finished"]
         /\ UNCHANGED <<line, handled>>

\* while let Some(Ok(event)) = stream.next().await { handle(&event).await; }
\* one stream.next(): an event enters the handler, anything else ends the loop
WhileLet(l, item) ==
    IF item.tag = "Ok"
    THEN /\ taskPc' = [taskPc EXCEPT ![l] = "Handling"]
         /\ line' = [line EXCEPT ![l] = 1]
         /\ handled' = [handled EXCEPT ![l] = Append(@, item.event)]
    ELSE /\ taskPc' = [taskPc EXCEPT ![l] = "Finished"]
         /\ UNCHANGED <<line, handled>>

\* a loop that pulls from its stream again after it has ended
StreamNextAfterEnd(l) ==
    /\ taskPc[l] \in {"Next", "Finished"}
    /\ mainPc # "Returned"
    /\ Len(yielded[l]) < MaxItems
    /\ \E item \in StreamResults(l) :
          /\ yielded' = [yielded EXCEPT ![l] = Append(@, item)]
          /\ WhileLet(l, item)
    /\ UNCHANGED <<mainPc, mainResult, out, lastPrinter>>
    /\ UNCHANGED fmtVars

StreamNext(l) ==
    /\ taskPc[l] = "Next"
    /\ mainPc # "Returned"
    /\ Len(yielded[l]) < MaxItems
    /\ \E item \in StreamResults(l) :
          /\ yielded' = [yielded EXCEPT ![l] = Append(@, item)]
          /\ WhileLet(l, item)
    /\ UNCHANGED <<mainPc, mainResult, out, lastPrinter>>
    /\ UNCHANGED fmtVars

\* the next println! of the running handler call; after the last one the loop
\* is back at stream.next(); a panic ends the task
Println(l) ==
    /\ taskPc[l] = "Handling"
    /\ \E res \in Handler(l, handled[l][Len(handled[l])], line[l]) :
          IF res.panic
          THEN /\ taskPc' = [taskPc EXCEPT ![l] = "Panicked"]
               /\ line' = [line EXCEPT ![l] = 0]
               /\ UNCHANGED <<out, lastPrinter>>
          ELSE /\ out' = [out EXCEPT ![l] = Append(@, [label |-> res.label, text |-> res.text])]
               /\ lastPrinter' = l
               /\ IF line[l] = HandlerLines
                  THEN /\ taskPc' = [taskPc EXCEPT ![l] = "Next"]
                       /\ line' = [line EXCEPT ![l] = 0]
                  ELSE /\ line' = [line EXCEPT ![l] = @ + 1]
                       /\ UNCHANGED taskPc
    /\ UNCHANGED <<mainPc, mainResult, yielded, handled>>
    /\ UNCHANGED fmtVars

\* main has returned: the runtime is dropped, and a task waiting at its
\* stream.next().await is dropped with it
Cancel(l) ==
    /\ mainPc = "Returned"
    /\ taskPc[l] = "Next"
    /\ taskPc' = [taskPc EXCEPT ![l] = "Cancelled"]
    /\ UNCHANGED <<mainPc, mainResult, line, yielded, handled, out, lastPrinter>>
    /\ UNCHANGED fmtVars

Next ==
    \/ Connect
    \/ SubscribeV2
    \/ SubscribeV3
    \/ Listen
    \/ SpawnV2
    \/ SpawnV3
    \/ Join
    \/ \E l \in Tasks : StreamNext(l)
    \/ \E l \in Tasks : Println(l)
    \/ \E l \in Tasks : Cancel(l)

Spec == Init /\ [][Next]_vars

(***************************************************************************)
(* format_units called directly, on inputs of every kind its signature     *)
(* accepts.                                                                *)
(***************************************************************************)
FmtValues ==
    {NatLimbs(n) : n \in 0..MaxFmtValue}
        \cup {NatLimbs(1000000), NatLimbs(123456789), I256MinMag, U256Max}

\* u8
FmtDecimals == (0..MaxFmtDecimals) \cup {6, 18, 77, 78, 255}

InitFmt ==
    /\ InitMux
    /\ fmtPc = "Call"
    /\ fmtValue \in FmtValues
    /\ fmtDecimals \in FmtDecimals
    /\ fmtResult = <<>>

\* format_units(fmtValue, fmtDecimals) returns its String, or panics
FormatCall ==
    /\ fmtPc = "Call"
    /\ LET r == format_units(fmtValue, fmtDecimals)
       IN  IF r.panic
           THEN fmtPc' = "Panicked" /\ fmtResult' = <<>>
           ELSE fmtPc' = "Returned" /\ fmtResult' = r.str
    /\ UNCHANGED <<fmtValue, fmtDecimals>>
    /\ UNCHANGED muxVars

NextFmt == FormatCall

SpecFmt == InitFmt /\ [][NextFmt]_vars

(***************************************************************************)
(* Helpers of the properties.                                              *)
(***************************************************************************)
Last(s) == s[Len(s)]

SetupCauses == {"connect", "subscribeV2", "subscribeV3"}

\* the items (Some(_)) among the results of stream.next()
Items(l) == {i \in 1..Len(yielded[l]) : yielded[l][i].tag # "None"}

\* the handler calls of task l that have returned
Completed(l) == IF taskPc[l] \in {"Handling", "Panicked"} THEN Len(handled[l]) - 1 ELSE Len(handled[l])

DigitOf(c) == CHOOSE d \in 0..9 : DigitChar[d + 1] = c

IsDigits(s) == \A i \in 1..Len(s) : \E d \in 0..9 : DigitChar[d + 1] = s[i]

\* the number that at most four decimal digits write
ChunkValue(c) ==
    LET d(i) == IF i <= Len(c) THEN DigitOf(c[Len(c) + 1 - i]) ELSE 0
    IN  d(1) + 10 * d(2) + 100 * d(3) + 1000 * d(4)

\* the number a string of decimal digits writes: four digits a limb, from the right
ParseNat(chars) ==
    LET n     == Len(chars)
        limbs == (n + 3) \div 4
        first == n - 4 * (limbs - 1)
    IN  IF n = 0 THEN Zero
        ELSE Strip([i \in 1..limbs |->
                     IF i = 1 THEN ChunkValue(SubSeq(chars, 1, first))
                     ELSE ChunkValue(SubSeq(chars, first + 4 * (i - 2) + 1, first + 4 * (i - 1)))])

\* the string rust's own integer formatting gives a number: no sign, no leading zeros
Canonical(chars) == Len(chars) >= 1 /\ IsDigits(chars) /\ (Len(chars) > 1 => chars[1] # "0")

(***************************************************************************)
(* C1: a decode failure (an Err item of stream.next()) is not fatal to its *)
(* loop: a loop whose latest item is a decode failure is still running.    *)
(* The code leaves `while let Some(Ok(event))` on an Err item.             *)
(***************************************************************************)
C1_DecodeFailureNotFatal ==
    \A l \in Tasks :
        (yielded[l] # <<>> /\ Last(yielded[l]).tag = "Err") => taskPc[l] # "Finished"

(***************************************************************************)
(* C2: main's combined wait completes, with a failure, as soon as either   *)
(* loop has terminated, without waiting for the other loop. try_join!      *)
(* completes early only on an Err: a loop that ended returns Ok(()).       *)
(***************************************************************************)
C2_JoinCompletesOnFirstTermination ==
    (mainPc = "Join" /\ \E l \in Tasks : HandleReady(l))
        => (TryJoinReady /\ TryJoinResult.tag = "Err")

(***************************************************************************)
(* C3: main never returns Ok after a loop has terminated because its       *)
(* stream ended.                                                           *)
(***************************************************************************)
C3_NeverOkAfterTermination ==
    mainResult.tag = "Ok" => \A l \in Tasks : taskPc[l] # "Finished"

(***************************************************************************)
(* C4: the handler is invoked exactly once for every item a stream yields, *)
(* a decode failure included.                                              *)
(***************************************************************************)
C4_HandlerOncePerItem ==
    \A l \in Tasks : Len(handled[l]) = Cardinality(Items(l))

(***************************************************************************)
(* C5: within one loop the events are handled in the order the stream      *)
(* yields them, each handler call printing all its lines before the next   *)
(* item is pulled: the handled events are a prefix of the yielded items,   *)
(* at most one yielded item is not handled to the end, and the lines       *)
(* printed are those of the handled events, in order.                      *)
(***************************************************************************)
C5_HandledInStreamOrder ==
    \A l \in Tasks :
        /\ Len(handled[l]) <= Len(yielded[l])
        /\ \A i \in 1..Len(handled[l]) : yielded[l][i] = [tag |-> "Ok", event |-> handled[l][i]]
        /\ Len(yielded[l]) - Completed(l) <= 1
        /\ taskPc[l] # "Handling" => line[l] = 0
        /\ Len(out[l]) = HandlerLines * Completed(l)
                            + (IF taskPc[l] = "Handling" THEN line[l] - 1 ELSE 0)
                            + (IF taskPc[l] = "Panicked" THEN Len(out[l]) % HandlerLines ELSE 0)
        /\ \A j \in 1..Len(out[l]) :
              \E res \in Handler(l, handled[l][((j - 1) \div HandlerLines) + 1],
                                 ((j - 1) % HandlerLines) + 1) :
                  ~res.panic /\ out[l][j] = [label |-> res.label, text |-> res.text]

\* the V2 loop has handled two different events to the end, in the order its stream
\* yielded them, while the V3 loop is in the middle of a handler call
C5_Witness ==
    /\ Len(handled["V2"]) = 2
    /\ handled["V2"][1] # handled["V2"][2]
    /\ taskPc["V2"] = "Next"
    /\ Len(out["V2"]) = 2 * HandlerLines
    /\ taskPc["V3"] = "Handling"
    /\ lastPrinter = "V3"

(***************************************************************************)
(* C6: the loops are independent: when one loop terminates, also by a      *)
(* failure inside its handler, the other loop is not cancelled.            *)
(***************************************************************************)
C6_OtherLoopNotCancelled ==
    \A l \in Tasks : taskPc[l] # "Cancelled"

C8_FormatUnitsNeverPanics ==
    fmtPc # "Panicked"

(***************************************************************************)
(* C9: no handler call fails: handle_v2_swap and handle_v3_swap complete   *)
(* for every record, I256::MIN amounts included, and no task panics.       *)
(***************************************************************************)
C9_HandlerNeverFails ==
    \A l \in Tasks : taskPc[l] # "Panicked"

(***************************************************************************)
(* C10: no task is spawned and nothing is pulled, handled or printed       *)
(* before both subscriptions are established; if the connection or a       *)
(* subscribe fails, main returns that error and no task ever starts.       *)
(***************************************************************************)
C10_NothingBeforeSubscribed ==
    LET started == \E l \in Tasks :
                      \/ taskPc[l] # "NotSpawned"
                      \/ yielded[l] # <<>>
                      \/ handled[l] # <<>>
                      \/ out[l] # <<>>
    IN  /\ mainPc \in {"Connect", "SubscribeV2", "SubscribeV3", "Listen"} => ~started
        /\ mainResult.cause \in SetupCauses => (mainPc = "Returned" /\ ~started)
        /\ taskPc["V3"] # "NotSpawned" => taskPc["V2"] # "NotSpawned"

\* the V2 subscription was established, the V3 subscribe failed and main returned its error
C10_Witness ==
    /\ mainPc = "Returned"
    /\ mainResult = Err("subscribeV3")

(***************************************************************************)
(* C11: termination of a loop is permanent. Once a loop has ended (its     *)
(* stream returned None or an Err item) no step pulls another item for it, *)
(* calls its handler, prints for it or takes it out of the ended state,    *)
(* and main never goes back to a subscribe.                                *)
(***************************************************************************)
C11_TerminationPermanent ==
    [][\A l \in Tasks :
          taskPc[l] = "Finished" =>
             /\ taskPc'[l] = "Finished"
             /\ yielded'[l] = yielded[l]
             /\ handled'[l] = handled[l]
             /\ out'[l] = out[l]
             /\ line'[l] = line[l]
             /\ mainPc' \notin {"Connect", "SubscribeV2", "SubscribeV3"}]_vars

\* the V2 loop ended on an Err item while the V3 loop is inside a handler call
C11_Witness ==
    /\ taskPc["V2"] = "Finished"
    /\ Last(yielded["V2"]).tag = "Err"
    /\ taskPc["V3"] = "Handling"
    /\ Len(out["V3"]) > HandlerLines

(***************************************************************************)
(* C12: a loop runs exactly until its channel ends: a loop that is no      *)
(* longer running has pulled None or an Err item last, never a decoded     *)
(* event (each decoded event leads back to the next stream.next()).        *)
(***************************************************************************)
C12_RunsUntilChannelEnds ==
    \A l \in Tasks :
       taskPc[l] \in {"Finished", "Panicked", "Cancelled"} =>
          /\ yielded[l] # <<>>
          /\ Last(yielded[l]).tag # "Ok"

\* the capital of a letter that follows an underscore in a field name
Upper(c) ==
    CASE c = "i" -> "I"
      [] c = "o" -> "O"
      [] c = "p" -> "P"
      [] c = "x" -> "X"
      [] OTHER -> c

\* a snake_case field name in the camelCase the ABI writes it in
CamelCase(name) ==
    LET kept == SelectSeq([i \in 1..Len(name) |-> i], LAMBDA i : name[i] # "_")
    IN  [k \in 1..Len(kept) |->
            IF kept[k] > 1 /\ name[kept[k] - 1] = "_" THEN Upper(name[kept[k]])
            ELSE name[kept[k]]]

\* the topics of a log of this layout: the signature hash and one per indexed field
TopicCount(fields) == 1 + Cardinality({i \in 1..Len(fields) : fields[i].indexed})

\* the bytes of data of a log of this layout: one 32-byte word per field that is not indexed
DataLength(fields) == 32 * Cardinality({i \in 1..Len(fields) : ~fields[i].indexed})

\* the record and the ABI inputs name the same fields in the same order, each indexed in
\* both or in neither
SameLayout(record, abi) ==
    /\ Len(record) = Len(abi)
    /\ \A i \in 1..Len(record) :
          /\ CamelCase(record[i].name) = abi[i].name
          /\ record[i].indexed = abi[i].indexed

\* the record type task l's stream decodes into
RecordOf(l) == IF l = "V2" THEN SwapV2Event ELSE SwapV3Event

\* the ABI task l's contract was built with
AbiOf(l) == IF l = "V2" THEN get_v2_pair_abi ELSE get_v3_pool_abi

(***************************************************************************)
(* C13: the typed record and the ABI of each contract describe the same    *)
(* event layout: whenever a stream has decoded a record, its record type   *)
(* and its contract's ABI name the same fields in the same order with the  *)
(* same indexed flag, so both give 3 topics, and 128 bytes of data for V2, *)
(* 160 for V3.                                                             *)
(***************************************************************************)
C13_RecordMatchesAbi ==
    \A l \in Tasks :
       (\E i \in 1..Len(yielded[l]) : yielded[l][i].tag = "Ok") =>
          /\ SameLayout(RecordOf(l), AbiOf(l))
          /\ TopicCount(RecordOf(l)) = 3
          /\ TopicCount(AbiOf(l)) = 3
          /\ DataLength(RecordOf(l)) = (IF l = "V2" THEN 128 ELSE 160)
          /\ DataLength(AbiOf(l)) = (IF l = "V2" THEN 128 ELSE 160)

\* both streams have yielded a decoded record
C13_Witness ==
    \A l \in Tasks : \E i \in 1..Len(yielded[l]) : yielded[l][i].tag = "Ok"

(***************************************************************************)
(* C14: format_units(value, 0) never fails and renders every value as the  *)
(* value itself followed by ".0": the whole part is the value in decimal   *)
(* digits without leading zeros, and the fraction is the single digit 0.   *)
(***************************************************************************)
C14_ZeroDecimals ==
    (fmtPc # "Call" /\ fmtDecimals = 0) =>
        /\ fmtPc = "Returned"
        /\ LET n     == Len(fmtResult)
               whole == SubSeq(fmtResult, 1, n - 2)
           IN  /\ n >= 3
               /\ fmtResult[n - 1] = "."
               /\ fmtResult[n] = "0"
               /\ Canonical(whole)
               /\ ParseNat(whole) = fmtValue

\* format_units(12, 0) has returned "12.0"
C14_Witness ==
    /\ fmtPc = "Returned"
    /\ fmtValue = NatLimbs(12)
    /\ fmtDecimals = 0
    /\ fmtResult = <<"1", "2", ".", "0">>

(***************************************************************************)
(* C15: the output block of one record is not interleaved with the other   *)
(* loop's lines: while a handler call is between its header and its        *)
(* separator line, the line printed last is one of its own.                *)
(***************************************************************************)
C15_BlockNotInterleaved ==
    \A l \in Tasks :
       (taskPc[l] = "Handling" /\ line[l] > 1) => lastPrinter = l

\* two V3 records equal except for the signs of amount0 and amount1
SameUpToSign(e, f) ==
    /\ e.sender = f.sender
    /\ e.recipient = f.recipient
    /\ e.amount0.mag = f.amount0.mag
    /\ e.amount1.mag = f.amount1.mag
    /\ e.sqrt_price_x96 = f.sqrt_price_x96
    /\ e.liquidity = f.liquidity
    /\ e.tick = f.tick

\* the lines the i-th handler call of task l printed, once it has returned
Block(l, i) == SubSeq(out[l], HandlerLines * (i - 1) + 1, HandlerLines * i)

(***************************************************************************)
(* C16: handle_v3_swap renders only the magnitude of the signed amounts:   *)
(* two handled V3 records that are equal except for the sign of amount0 or *)
(* of amount1 have printed identical blocks of lines.                      *)
(***************************************************************************)
C16_SignNotObservable ==
    \A i, j \in 1..Completed("V3") :
       SameUpToSign(handled["V3"][i], handled["V3"][j]) => Block("V3", i) = Block("V3", j)

\* the V3 handler has returned for two records that differ in the sign of amount0 only
C16_Witness ==
    /\ Completed("V3") = 2
    /\ handled["V3"][1] # handled["V3"][2]
    /\ SameUpToSign(handled["V3"][1], handled["V3"][2])
    /\ handled["V3"][1].amount0.neg # handled["V3"][2].amount0.neg
    /\ Len(out["V3"]) = 2 * HandlerLines

=============================================================================
